---- MODULE Spec2Model ----
(***************************************************************************)
(* pandera/typing/pyspark.py: the pyspark wrapper types DataFrame, Series  *)
(* and Index, and the pydantic integration mixin of DataFrame.             *)
(*                                                                         *)
(* The model follows one interpreter process at a time: the module is      *)
(* evaluated top to bottom (the optional import of pyspark.pandas, the     *)
(* body of _PydanticIntegrationMixIn, the three wrapper classes), then     *)
(* wrapper types are subscripted, a wrapper is used as the type of a field *)
(* of a pydantic model, and pydantic calls the registered validator on     *)
(* objects.  The unconditional imports of lines 2-16 are taken to resolve, *)
(* and annotations are evaluated when a def statement is executed (no      *)
(* "from __future__ import annotations" in the file).                      *)
(*                                                                         *)
(* Values that may be absent (None, "no exception") are sequences of       *)
(* length 0 or 1.  Strings that the code builds are sequences of pieces.   *)
(***************************************************************************)
EXTENDS Integers, Sequences, FiniteSets, TLC

\* Most validator calls one observer's record keeps.
MaxCalls == 2
\* Most subscriptions recorded in one process.
MaxAliases == 2

VARIABLES
    pysparkImportable,  \* environment: "import pyspark.pandas" succeeds
    PYDANTIC_V2,        \* pandera.engines.PYDANTIC_V2, as imported on line 8
    modpc,              \* position of the module's evaluation
    names,              \* the names bound in the module's namespace
    PYSPARK_INSTALLED,  \* the module global of lines 21/23 (once bound)
    raised,             \* the exception the module's evaluation ended with
    classdict,          \* class name -> the attributes its body defines
    aliases,            \* the subscriptions made, in order
    field,              \* the field of the pydantic model using a wrapper
    history             \* finished validator calls (kept across processes)

vars == <<pysparkImportable, PYDANTIC_V2, modpc, names, PYSPARK_INSTALLED,
          raised, classdict, aliases, field, history>>

----------------------------------------------------------------------------
(* The values the operations are applied to.                               *)

SchemaModels == {"ModelA", "ModelB", "BrokenModel"}

\* Subscript arguments: a schema model or a dtype.  A subscript arrives as
\* the sequence of its parameters (DataFrame[A] ~ <<A>>, X[A, B] ~ <<A, B>>).
Params == SchemaModels \cup {"int64"}
Items == {<<p>> : p \in Params} \cup {<<"ModelB", "ModelA">>}

\* The subscripts of a wrapper used as a field type: schema models only.
FieldItems == {it \in Items : \A i \in 1..Len(it) : it[i] \in SchemaModels}

\* Dataframe objects: an identity and the columns whose data is bad.
Objs == {[id |-> 1, bad |-> {}],
         [id |-> 2, bad |-> {"col_b"}],
         [id |-> 3, bad |-> {"col_a", "col_b"}]}

Wrappers == {"DataFrame", "Series", "Index"}
Classes == Wrappers \cup {"_PydanticIntegrationMixIn"}

----------------------------------------------------------------------------
(* Exceptions and results.                                                 *)

Exc(type, msg, cause, detail) ==
    [type |-> type, msg |-> msg, cause |-> cause, detail |-> detail]

\* str(exc) of an exception built from one message argument.
str(exc) == exc.msg

Returned(value, trace) ==
    [kind |-> "return", value |-> <<value>>, exc |-> <<>>, trace |-> trace]

Raised(exc, trace) ==
    [kind |-> "raise", value |-> <<>>, exc |-> <<exc>>, trace |-> trace]

----------------------------------------------------------------------------
(* The collaborators: DataFrameModel.to_schema and DataFrameSchema.validate *)

\* The checks of the schema a model compiles to, in the order they are run.
Checks(schema_model) ==
    IF schema_model = "ModelA" THEN <<"col_a">> ELSE <<"col_a", "col_b">>

to_schema(schema_model) ==
    IF schema_model = "BrokenModel"
    THEN [ok |-> FALSE, schema |-> <<>>,
          exc |-> <<Exc("SchemaInitError",
                        <<"invalid field in ", schema_model>>, <<>>, <<>>)>>]
    ELSE [ok |-> TRUE,
          schema |-> <<[model |-> schema_model,
                        checks |-> Checks(schema_model)]>>,
          exc |-> <<>>]

Violations(schema, obj) ==
    SelectSeq(schema.checks, LAMBDA c : c \in obj.bad)

validate(schema, obj, lazy) ==
    LET v == Violations(schema, obj)
    IN  IF v = <<>>
        THEN [ok |-> TRUE, value |-> <<obj>>, exc |-> <<>>]
        ELSE IF lazy
        THEN [ok |-> FALSE, value |-> <<>>,
              exc |-> <<Exc("SchemaErrors",
                            <<"schema errors: ">> \o v, <<>>, v)>>]
        ELSE [ok |-> FALSE, value |-> <<>>,
              exc |-> <<Exc("SchemaError",
                            <<"failed check: ", v[1]>>, <<>>, <<v[1]>>)>>]

----------------------------------------------------------------------------
(* typing: generic aliases.                                                *)

\* The alias class __class_getitem__ returns: the base type paired with the
\* subscript's parameters.
_GenericAlias(cls, item) ==
    [kind |-> "_GenericAlias", origin |-> cls, args |-> item]

\* A class used bare as a type: no parameters.
BareType(cls) == [kind |-> "class", origin |-> cls, args |-> <<>>]

\* typing.get_args: the parameters of an alias, () for anything else.
get_args(source_type) ==
    IF source_type.kind = "class" THEN <<>> ELSE source_type.args

----------------------------------------------------------------------------
(* _PydanticIntegrationMixIn                                               *)

\* Faulty variant: the last sub-field instead of the first.
_get_schema_model_last(cls, fld) ==
    IF fld.sub_fields = <<>>
    THEN [ok |-> FALSE, value |-> <<>>,
          exc |-> <<Exc("TypeError",
                        <<"Expected a typed pandera.typing.DataFrame,",
                          " e.g. DataFrame[Schema]">>, <<>>, <<>>)>>]
    ELSE [ok |-> TRUE,
          value |-> <<fld.sub_fields[Len(fld.sub_fields)].type_>>,
          exc |-> <<>>]

\* Faulty variant: a value error instead of a type error.
_get_schema_model_value_error(cls, fld) ==
    IF fld.sub_fields = <<>>
    THEN [ok |-> FALSE, value |-> <<>>,
          exc |-> <<Exc("ValueError",
                        <<"Expected a typed pandera.typing.DataFrame,",
                          " e.g. DataFrame[Schema]">>, <<>>, <<>>)>>]
    ELSE [ok |-> TRUE, value |-> <<fld.sub_fields[1].type_>>, exc |-> <<>>]

_get_schema_model(cls, fld) ==
    IF fld.sub_fields = <<>>
    THEN [ok |-> FALSE, value |-> <<>>,
          exc |-> <<Exc("TypeError",
                        <<"Expected a typed pandera.typing.DataFrame,",
                          " e.g. DataFrame[Schema]">>, <<>>, <<>>)>>]
    ELSE [ok |-> TRUE, value |-> <<fld.sub_fields[1].type_>>, exc |-> <<>>]

\* Faulty variant: the guidance without the original error's text.
SchemaInitFailure_no_text(cls, exc) ==
    Exc("ValueError",
        <<"Cannot use ", cls, " as a pydantic type as its ",
          "DataFrameModel cannot be converted to a DataFrameSchema.\n",
          "Please revisit the model to address the following errors:",
          "\n">>,
        <<exc>>, <<>>)

\* raise ValueError(f"Cannot use {cls.__name__} ... \n{exc}") from exc
SchemaInitFailure(cls, exc) ==
    Exc("ValueError",
        <<"Cannot use ", cls, " as a pydantic type as its ",
          "DataFrameModel cannot be converted to a DataFrameSchema.\n",
          "Please revisit the model to address the following errors:",
          "\n">> \o str(exc),
        <<exc>>, <<>>)

\* raise ValueError(str(exc)) from exc
SchemaFailure(exc) == Exc("ValueError", str(exc), <<exc>>, <<>>)

\* Faulty variant: lazy validation.
schema_validate_lazy(schema, obj) ==
    [lazy |-> TRUE, result |-> validate(schema, obj, TRUE)]

\* schema.validate(obj, lazy=False)
schema_validate(schema, obj) ==
    [lazy |-> FALSE, result |-> validate(schema, obj, FALSE)]

ToSchemaEvent(schema_model, made) ==
    [op |-> "to_schema", model |-> schema_model, raised |-> made.exc]

ValidateEvent(obj, call) ==
    [op |-> "validate", obj |-> obj, lazy |-> call.lazy,
     raised |-> call.result.exc]

\* Faulty variant: the validated data is rebuilt before it is returned.
pydantic_validate_rebuilds(cls, obj, schema_model) ==
    LET made == to_schema(schema_model)
        t1 == <<ToSchemaEvent(schema_model, made)>>
    IN  IF ~made.ok
        THEN IF made.exc[1].type = "SchemaInitError"
             THEN Raised(SchemaInitFailure(cls, made.exc[1]), t1)
             ELSE Raised(made.exc[1], t1)
        ELSE LET call == schema_validate(made.schema[1], obj)
                 t2 == Append(t1, ValidateEvent(obj, call))
             IN  IF ~call.result.ok
                 THEN IF call.result.exc[1].type = "SchemaError"
                      THEN Raised(SchemaFailure(call.result.exc[1]), t2)
                      ELSE Raised(call.result.exc[1], t2)
                 ELSE Returned([call.result.value[1] EXCEPT !.id = 0], t2)

\* Faulty variant: a failed validation is tried once more.
pydantic_validate_retries(cls, obj, schema_model) ==
    LET made == to_schema(schema_model)
        t1 == <<ToSchemaEvent(schema_model, made)>>
    IN  IF ~made.ok
        THEN IF made.exc[1].type = "SchemaInitError"
             THEN Raised(SchemaInitFailure(cls, made.exc[1]), t1)
             ELSE Raised(made.exc[1], t1)
        ELSE LET call == schema_validate(made.schema[1], obj)
                 t2 == Append(t1, ValidateEvent(obj, call))
                 t3 == Append(t2, ValidateEvent(obj, call))
             IN  IF ~call.result.ok
                 THEN IF call.result.exc[1].type = "SchemaError"
                      THEN Raised(SchemaFailure(call.result.exc[1]), t3)
                      ELSE Raised(call.result.exc[1], t3)
                 ELSE Returned(call.result.value[1], t2)

\* The result and, in trace, the calls made to the collaborators, in order.
\* An exception the except clauses do not name propagates as it is.
pydantic_validate(cls, obj, schema_model) ==
    LET made == to_schema(schema_model)
        t1 == <<ToSchemaEvent(schema_model, made)>>
    IN  IF ~made.ok
        THEN IF made.exc[1].type = "SchemaInitError"
             THEN Raised(SchemaInitFailure(cls, made.exc[1]), t1)
             ELSE Raised(made.exc[1], t1)
        ELSE LET call == schema_validate(made.schema[1], obj)
                 t2 == Append(t1, ValidateEvent(obj, call))
             IN  IF ~call.result.ok
                 THEN IF call.result.exc[1].type = "SchemaError"
                      THEN Raised(SchemaFailure(call.result.exc[1]), t2)
                      ELSE Raised(call.result.exc[1], t2)
                 ELSE Returned(call.result.value[1], t2)

_pydantic_validate(cls, obj, fld) ==
    LET got == _get_schema_model(cls, fld)
    IN  IF ~got.ok
        THEN Raised(got.exc[1], <<>>)
        ELSE pydantic_validate(cls, obj, got.value[1])

\* The plain validator function: functools.partial(cls.pydantic_validate,
\* schema_model=get_args(_source_type)[0]); () [0] raises IndexError.
__get_pydantic_core_schema__(cls, _source_type) ==
    IF get_args(_source_type) = <<>>
    THEN [ok |-> FALSE, bound |-> <<>>,
          exc |-> <<Exc("IndexError", <<"tuple index out of range">>,
                        <<>>, <<>>)>>]
    ELSE [ok |-> TRUE, bound |-> <<get_args(_source_type)[1]>>, exc |-> <<>>]

\* yield cls._pydantic_validate
__get_validators__(cls) == <<"_pydantic_validate">>

\* The field descriptor _get_schema_model reads: one sub-field per parameter
\* of the field's type, none for a bare class.
ModelField(source_type) ==
    [sub_fields |-> [i \in 1..Len(get_args(source_type)) |->
                        [type_ |-> get_args(source_type)[i]]]]

----------------------------------------------------------------------------
(* The wrapper classes.                                                    *)

\* Faulty variant: DataFrame's class statement leaves the mixin out.
Bases_without_mixin(cls) ==
    IF cls = "DataFrame"
    THEN <<"DataFrameBase", "ps.DataFrame", "Generic">>
    ELSE IF cls = "Series" THEN <<"SeriesBase", "ps.Series", "Generic">>
    ELSE IF cls = "Index" THEN <<"IndexBase", "ps.Index", "Generic">>
    ELSE <<>>

\* The bases each class statement names, in order.
Bases(cls) ==
    IF cls = "DataFrame"
    THEN <<"DataFrameBase", "_PydanticIntegrationMixIn", "ps.DataFrame",
           "Generic">>
    ELSE IF cls = "Series" THEN <<"SeriesBase", "ps.Series", "Generic">>
    ELSE IF cls = "Index" THEN <<"IndexBase", "ps.Index", "Generic">>
    ELSE <<>>

\* What the body of _PydanticIntegrationMixIn defines under a version flag.
MixinBody(v2) ==
    {"_get_schema_model", "pydantic_validate", "_pydantic_validate"}
        \cup (IF v2 THEN {"__get_pydantic_core_schema__"}
                    ELSE {"__get_validators__"})

\* The class of this module an attribute lookup on cls ends in: cls itself,
\* else the first base defined here whose body has it, else "external" (the
\* pyspark, typing and pandera.typing.common bases).
Definer(cls, attr) ==
    LET mro == <<cls>> \o Bases(cls)
        hits == {i \in 1..Len(mro) :
                    mro[i] \in Classes /\ attr \in classdict[mro[i]]}
    IN  IF hits = {} THEN "external"
        ELSE mro[CHOOSE i \in hits : \A j \in hits : i <= j]

\* Faulty variant: the alias loses the subscript.
DataFrame_class_getitem_drops(cls, item) ==
    [value |-> _GenericAlias(cls, <<>>), trace |-> <<>>]

\* DataFrame.__class_getitem__; trace: the collaborator calls it makes.
DataFrame_class_getitem(cls, item) ==
    [value |-> _GenericAlias(cls, item), trace |-> <<>>]

\* Series.__class_getitem__
Series_class_getitem(cls, item) ==
    [value |-> _GenericAlias(cls, item), trace |-> <<>>]

\* Index defines no __class_getitem__: the subscription is the bases' (the
\* generic alias of typing, not the one this module builds).
Inherited_class_getitem(cls, item) ==
    [value |-> [kind |-> "inherited", origin |-> cls, args |-> item],
     trace |-> <<>>]

class_getitem(cls, item) ==
    IF Definer(cls, "__class_getitem__") = "DataFrame"
    THEN DataFrame_class_getitem(cls, item)
    ELSE IF Definer(cls, "__class_getitem__") = "Series"
    THEN Series_class_getitem(cls, item)
    ELSE Inherited_class_getitem(cls, item)

----------------------------------------------------------------------------
(* The state machine.                                                      *)

NoField ==
    [state |-> "none", path |-> "none", cls |-> "none",
     source |-> BareType("none"), bound |-> <<>>,
     descriptor |-> [sub_fields |-> <<>>], exc |-> <<>>]

Fresh ==
    /\ modpc = "begin"
    /\ names = {}
    /\ PYSPARK_INSTALLED = FALSE
    /\ raised = <<>>
    /\ classdict = [c \in Classes |-> {}]
    /\ aliases = <<>>
    /\ field = NoField

Init ==
    /\ pysparkImportable \in BOOLEAN
    /\ PYDANTIC_V2 \in BOOLEAN
    /\ Fresh
    /\ history = {}

\* Lines 18-23: try: import pyspark.pandas as ps ... except ImportError.
TryImportPyspark ==
    /\ modpc = "begin"
    /\ IF pysparkImportable
       THEN /\ names' = names \cup {"ps", "PYSPARK_INSTALLED"}
            /\ PYSPARK_INSTALLED' = TRUE
       ELSE /\ names' = names \cup {"PYSPARK_INSTALLED"}
            /\ PYSPARK_INSTALLED' = FALSE
    /\ modpc' = "mixin"
    /\ UNCHANGED <<pysparkImportable, PYDANTIC_V2, raised, classdict, aliases,
                   field, history>>

\* Lines 33-100: the class statement of the mixin.  The def of
\* pydantic_validate evaluates its return annotation ps.DataFrame: with ps
\* unbound this is a NameError, and the module's evaluation ends there.
DefineMixin ==
    /\ modpc = "mixin"
    /\ IF "ps" \in names
       THEN /\ classdict' = [classdict EXCEPT
                   !["_PydanticIntegrationMixIn"] = MixinBody(PYDANTIC_V2)]
            /\ names' = names \cup {"_PydanticIntegrationMixIn"}
            /\ modpc' = "wrappers"
            /\ UNCHANGED raised
       ELSE /\ raised' = <<Exc("NameError", <<"name 'ps' is not defined">>,
                               <<>>, <<>>)>>
            /\ modpc' = "failed"
            /\ UNCHANGED <<classdict, names>>
    /\ UNCHANGED <<pysparkImportable, PYDANTIC_V2, PYSPARK_INSTALLED, aliases,
                   field, history>>

\* Lines 103-136: if PYSPARK_INSTALLED: the three class statements.
DefineWrappers ==
    /\ modpc = "wrappers"
    /\ IF PYSPARK_INSTALLED
       THEN /\ classdict' = [classdict EXCEPT
                   !["DataFrame"] = {"__class_getitem__"},
                   !["Series"] = {"__class_getitem__"},
                   !["Index"] = {}]
            /\ names' = names \cup Wrappers
       ELSE UNCHANGED <<classdict, names>>
    /\ modpc' = "loaded"
    /\ UNCHANGED <<pysparkImportable, PYDANTIC_V2, PYSPARK_INSTALLED, raised,
                   aliases, field, history>>

\* cls[item], evaluated on its own.
Subscript ==
    /\ modpc = "loaded"
    /\ Len(aliases) < MaxAliases
    /\ \E cls \in Wrappers \cap names, item \in Items :
          aliases' = Append(aliases,
              [cls |-> cls, item |-> item,
               definer |-> Definer(cls, "__class_getitem__"),
               alias |-> class_getitem(cls, item).value,
               trace |-> class_getitem(cls, item).trace])
    /\ UNCHANGED <<pysparkImportable, PYDANTIC_V2, modpc, names,
                   PYSPARK_INSTALLED, raised, classdict, field, history>>

\* The types a field can be given: the bare class, or the class subscripted.
SourceTypes(cls) ==
    {BareType(cls)} \cup {class_getitem(cls, item).value : item \in FieldItems}

\* pydantic >= 2 builds the model's schema: it calls the hook of the field's
\* type with the type as written; an exception ends the model's definition.
DefineFieldV2 ==
    /\ modpc = "loaded"
    /\ PYDANTIC_V2
    /\ field.state = "none"
    /\ \E cls \in Wrappers \cap names :
          /\ Definer(cls, "__get_pydantic_core_schema__") # "external"
          /\ \E src \in SourceTypes(cls) :
                LET got == __get_pydantic_core_schema__(cls, src)
                IN  field' = [state |-> IF got.ok THEN "registered"
                                                 ELSE "error",
                              path |-> "core_schema", cls |-> cls,
                              source |-> src, bound |-> got.bound,
                              descriptor |-> [sub_fields |-> <<>>],
                              exc |-> got.exc]
    /\ UNCHANGED <<pysparkImportable, PYDANTIC_V2, modpc, names,
                   PYSPARK_INSTALLED, raised, classdict, aliases, history>>

\* pydantic < 2 builds the field: its sub-fields from the type's parameters,
\* its validators from __get_validators__.
DefineFieldV1 ==
    /\ modpc = "loaded"
    /\ ~PYDANTIC_V2
    /\ field.state = "none"
    /\ \E cls \in Wrappers \cap names :
          /\ Definer(cls, "__get_validators__") # "external"
          /\ __get_validators__(cls) = <<"_pydantic_validate">>
          /\ \E src \in SourceTypes(cls) :
                field' = [state |-> "registered", path |-> "validators",
                          cls |-> cls, source |-> src, bound |-> <<>>,
                          descriptor |-> ModelField(src), exc |-> <<>>]
    /\ UNCHANGED <<pysparkImportable, PYDANTIC_V2, modpc, names,
                   PYSPARK_INSTALLED, raised, classdict, aliases, history>>

\* pydantic validates a value of the field: it calls the registered
\* validator, the partial with obj or _pydantic_validate with obj and field.
CallValidator ==
    /\ field.state = "registered"
    /\ \E obj \in Objs :
          LET res == IF field.path = "core_schema"
                     THEN pydantic_validate(field.cls, obj, field.bound[1])
                     ELSE _pydantic_validate(field.cls, obj, field.descriptor)
              rec == [path |-> field.path, cls |-> field.cls,
                      source |-> field.source,
                      descriptor |-> field.descriptor,
                      obj |-> obj, result |-> res]
          IN  /\ Cardinality(history \cup {rec}) <= MaxCalls
              /\ history' = history \cup {rec}
    /\ UNCHANGED <<pysparkImportable, PYDANTIC_V2, modpc, names,
                   PYSPARK_INSTALLED, raised, classdict, aliases, field>>

\* The process ends; another starts, in any environment.
Restart ==
    /\ modpc \in {"loaded", "failed"}
    /\ pysparkImportable' \in BOOLEAN
    /\ PYDANTIC_V2' \in BOOLEAN
    /\ modpc' = "begin"
    /\ names' = {}
    /\ PYSPARK_INSTALLED' = FALSE
    /\ raised' = <<>>
    /\ classdict' = [c \in Classes |-> {}]
    /\ aliases' = <<>>
    /\ field' = NoField
    /\ UNCHANGED history

Next ==
    \/ TryImportPyspark
    \/ DefineMixin
    \/ DefineWrappers
    \/ DefineFieldV2
    \/ DefineFieldV1
    \/ CallValidator
    \/ Restart

Spec == Init /\ [][Next]_vars

NextTyping ==
    \/ TryImportPyspark
    \/ DefineMixin
    \/ DefineWrappers
    \/ Subscript

SpecTyping == Init /\ [][NextTyping]_vars

----------------------------------------------------------------------------
(* Properties.                                                             *)

\* The schema model a recorded call's field type carries first.
ModelOf(h) == get_args(h.source)[1]

CompiledOf(h) == to_schema(ModelOf(h)).schema[1]

Parameterized(h) == get_args(h.source) # <<>>

Compiles(h) == Parameterized(h) /\ to_schema(ModelOf(h)).ok

EventsOf(trace, op) == SelectSeq(trace, LAMBDA e : e.op = op)

Outcome(h) ==
    [kind |-> h.result.kind, value |-> h.result.value, exc |-> h.result.exc]

\* C1: when the schema model compiles and the object satisfies the schema,
\* the validator raises nothing and returns the very object it was given.
C1_PassThrough ==
    \A h \in history :
        (Compiles(h) /\ Violations(CompiledOf(h), h.obj) = <<>>)
            => /\ h.result.kind = "return"
               /\ h.result.exc = <<>>
               /\ h.result.value = <<h.obj>>

C1_Witness ==
    \E h \in history :
        /\ Compiles(h)
        /\ Violations(CompiledOf(h), h.obj) = <<>>
        /\ h.result.kind = "return"

\* C2: when the object violates the compiled schema, schema.validate is
\* called with lazy=False and reports the first violation alone, and the
\* call raises a ValueError whose message is str() of that schema error,
\* with the schema error as its cause; nothing is returned.
C2_EagerValueError ==
    \A h \in history :
        (Compiles(h) /\ Violations(CompiledOf(h), h.obj) # <<>>)
            => LET v == EventsOf(h.result.trace, "validate")
               IN  /\ Len(v) = 1
                   /\ v[1].lazy = FALSE
                   /\ v[1].raised # <<>>
                   /\ v[1].raised[1].type = "SchemaError"
                   /\ v[1].raised[1].detail
                          = <<Violations(CompiledOf(h), h.obj)[1]>>
                   /\ h.result.kind = "raise"
                   /\ h.result.value = <<>>
                   /\ h.result.exc[1].type = "ValueError"
                   /\ h.result.exc[1].msg = str(v[1].raised[1])
                   /\ h.result.exc[1].cause = v[1].raised

C2_Witness ==
    \E h \in history :
        /\ Compiles(h)
        /\ Len(Violations(CompiledOf(h), h.obj)) > 1
        /\ h.result.kind = "raise"

\* C3: when to_schema() raises a SchemaInitError, the call raises a
\* ValueError whose message is a guidance prefix followed by the original
\* error's text, with the original error as its cause, and schema.validate
\* is not called.
C3_InitErrorTranslated ==
    \A h \in history :
        (Parameterized(h) /\ ~to_schema(ModelOf(h)).ok)
            => LET t == h.result.trace
                   orig == t[1].raised
                   msg == h.result.exc[1].msg
                   text == str(orig[1])
               IN  /\ Len(t) = 1
                   /\ t[1].op = "to_schema"
                   /\ orig # <<>>
                   /\ orig[1].type = "SchemaInitError"
                   /\ h.result.kind = "raise"
                   /\ h.result.value = <<>>
                   /\ h.result.exc[1].type = "ValueError"
                   /\ Len(msg) > Len(text)
                   /\ SubSeq(msg, Len(msg) - Len(text) + 1, Len(msg)) = text
                   /\ msg[1] = "Cannot use "
                   /\ h.result.exc[1].cause = orig
                   /\ EventsOf(t, "validate") = <<>>

C3_Witness ==
    \E h \in history :
        /\ Parameterized(h)
        /\ ~to_schema(ModelOf(h)).ok
        /\ h.result.kind = "raise"

\* C4: when pyspark is not importable, the module's evaluation ends without
\* an exception and binds none of DataFrame, Series, Index.
C4_ImportWithoutPyspark ==
    ~pysparkImportable
        => /\ modpc # "failed"
           /\ raised = <<>>
           /\ names \cap Wrappers = {}

\* C5: a wrapper used bare as a field type is rejected with a TypeError on
\* both registration paths, when a value is validated and not when the
\* model is defined, and before any call to to_schema().
C5_BareRejectedAtValidation ==
    /\ (field.state # "none" /\ get_args(field.source) = <<>>)
           => field.state = "registered"
    /\ \A h \in history :
           ~Parameterized(h)
               => /\ h.result.kind = "raise"
                  /\ h.result.exc[1].type = "TypeError"
                  /\ h.result.trace = <<>>

\* C6 as stated: every subscription of DataFrame, Series or Index is made by
\* the wrapper's own __class_getitem__ and gives the module's alias of the
\* wrapper and the argument, with no collaborator called.
C6_AllWrappersOverride ==
    \A i \in 1..Len(aliases) :
        /\ aliases[i].definer = aliases[i].cls
        /\ aliases[i].alias.kind = "_GenericAlias"
        /\ aliases[i].alias.origin = aliases[i].cls
        /\ get_args(aliases[i].alias) = aliases[i].item
        /\ aliases[i].trace = <<>>

C6_OverridesOfDataFrameAndSeries ==
    \A i \in 1..Len(aliases) :
        /\ aliases[i].cls \in {"DataFrame", "Series"}
               => /\ aliases[i].definer = aliases[i].cls
                  /\ aliases[i].alias.kind = "_GenericAlias"
                  /\ aliases[i].alias.origin = aliases[i].cls
                  /\ get_args(aliases[i].alias) = aliases[i].item
        /\ aliases[i].cls = "Index" => aliases[i].definer # "Index"
        /\ aliases[i].trace = <<>>

\* C6 (amended): subscripting DataFrame or Series goes through the
\* wrapper's own __class_getitem__ and gives the module's alias pairing the
\* wrapper with exactly the given argument, recoverable from the alias;
\* Index defines no override of its own; a later subscription leaves every
\* earlier alias as it was; no collaborator is called by a subscription.
C6_Subscription ==
    /\ []C6_OverridesOfDataFrameAndSeries
    /\ [][\A i \in 1..Len(aliases) :
             /\ i <= Len(aliases')
             /\ aliases'[i] = aliases[i]]_vars

C6_Witness ==
    /\ Len(aliases) = 2
    /\ aliases[1].cls = "DataFrame"
    /\ aliases[2].cls = "DataFrame"
    /\ aliases[1].item # aliases[2].item
    /\ get_args(aliases[1].alias) = aliases[1].item

\* C7: for the same parameterized field type and the same object, the
\* validator of the core-schema path and the validator of the
\* __get_validators__ path end in the same outcome, and each calls
\* schema.validate with lazy=False only.
C7_PathsAgree ==
    \A h1, h2 \in history :
        (/\ h1.path = "core_schema"
         /\ h2.path = "validators"
         /\ h1.cls = h2.cls
         /\ h1.source = h2.source
         /\ h1.obj = h2.obj
         /\ Parameterized(h1))
            => /\ Outcome(h1) = Outcome(h2)
               /\ \A e \in {h1.result.trace[i] : i \in 1..Len(h1.result.trace)}
                          \cup
                          {h2.result.trace[i] : i \in 1..Len(h2.result.trace)} :
                      e.op = "validate" => e.lazy = FALSE

C7_Witness ==
    \E h1, h2 \in history :
        /\ h1.path = "core_schema"
        /\ h2.path = "validators"
        /\ h1.source = h2.source
        /\ h1.obj = h2.obj
        /\ Len(get_args(h1.source)) = 2
        /\ EventsOf(h2.result.trace, "validate") # <<>>

\* C8 as stated: each of DataFrame, Series and Index, once defined, has the
\* adapter's validation hook.
C8_AllWrappersExposeHook ==
    \A w \in Wrappers \cap names :
        Definer(w, "pydantic_validate") = "_PydanticIntegrationMixIn"

\* C8 (amended): DataFrame, once defined, has the adapter's pydantic_validate
\* and the hook of the installed pydantic version, so a field of type
\* DataFrame[...] is validated through pydantic_validate; Series and Index
\* do not have the adapter among their bases.
C8_DataFrameExposesHook ==
    /\ "DataFrame" \in names
           => /\ Definer("DataFrame", "pydantic_validate")
                     = "_PydanticIntegrationMixIn"
              /\ Definer("DataFrame",
                         IF PYDANTIC_V2 THEN "__get_pydantic_core_schema__"
                                        ELSE "__get_validators__")
                     = "_PydanticIntegrationMixIn"
    /\ \A w \in {"Series", "Index"} \cap names :
           Definer(w, "pydantic_validate") = "external"
    /\ field.state # "none" => field.cls = "DataFrame"
    /\ \A h \in history :
           /\ h.cls = "DataFrame"
           /\ Parameterized(h)
                  => /\ h.result.trace # <<>>
                     /\ h.result.trace[1].op = "to_schema"

C8_Witness ==
    /\ "DataFrame" \in names
    /\ "Series" \in names
    /\ field.state = "registered"
    /\ \E h \in history : h.path = field.path /\ h.result.trace # <<>>

\* C9: a field with no sub-fields makes _pydantic_validate raise a TypeError
\* with neither to_schema() nor schema.validate called; a field with
\* sub-fields gives the type of its first sub-field as the schema model.
C9_ExtractionFirst ==
    \A h \in history :
        h.path = "validators"
            => /\ h.descriptor.sub_fields = <<>>
                      => /\ h.result.kind = "raise"
                         /\ h.result.exc[1].type = "TypeError"
                         /\ h.result.trace = <<>>
               /\ h.descriptor.sub_fields # <<>>
                      => /\ h.result.trace # <<>>
                         /\ h.result.trace[1].op = "to_schema"
                         /\ h.result.trace[1].model
                                = h.descriptor.sub_fields[1].type_
               /\ (h.result.kind = "raise"
                      /\ h.result.exc[1].type = "TypeError")
                      => h.result.trace = <<>>

C9_Witness ==
    \E h1, h2 \in history :
        /\ h1.path = "validators"
        /\ h1.descriptor.sub_fields = <<>>
        /\ h1.result.kind = "raise"
        /\ h2.path = "validators"
        /\ Len(h2.descriptor.sub_fields) = 2
        /\ h2.result.trace # <<>>

\* C10: a pydantic_validate call makes its first call to to_schema() and
\* calls it once; it calls schema.validate at most once and only after
\* to_schema() succeeded; a failure of either is the call's last step and
\* gives one translated error; calls with the same arguments have the same
\* result, whatever was called before.
C10_OneAttempt ==
    /\ \A h \in history :
           (h.path = "core_schema" \/ Parameterized(h))
               => LET t == h.result.trace
                  IN  /\ t # <<>>
                      /\ t[1].op = "to_schema"
                      /\ Len(EventsOf(t, "to_schema")) = 1
                      /\ Len(EventsOf(t, "validate")) <= 1
                      /\ EventsOf(t, "validate") # <<>> => t[1].raised = <<>>
                      /\ \A i \in 1..Len(t) :
                             t[i].raised # <<>>
                                 => /\ i = Len(t)
                                    /\ h.result.kind = "raise"
                                    /\ h.result.exc[1].type = "ValueError"
                                    /\ h.result.exc[1].cause = t[i].raised
                      /\ h.result.kind = "raise" => t[Len(t)].raised # <<>>
    /\ \A h1, h2 \in history :
           (/\ h1.path = h2.path
            /\ h1.cls = h2.cls
            /\ h1.source = h2.source
            /\ h1.obj = h2.obj)
               => h1.result = h2.result

C10_Witness ==
    \E h1, h2 \in history :
        /\ h1 # h2
        /\ h1.path = h2.path
        /\ h1.source = h2.source
        /\ Parameterized(h1)
        /\ h1.result.kind = "raise"
        /\ h2.result.kind = "return"
        /\ Len(h1.result.trace) = 2

====
